---- MODULE Spec2Model ----
(***************************************************************************)
(* A model of package patternmatcher (src/patternmatcher.go), unix build   *)
(* (os.PathSeparator = '/').  Strings are sequences of one-character       *)
(* strings; a compiled regular expression is kept as the expression text   *)
(* Compile builds, and regexp.Compile / MatchString are modelled by a      *)
(* parser and a search over that text.                                     *)
(***************************************************************************)
EXTENDS Integers, Sequences, FiniteSets, TLC

(* ------------------------------ bounds --------------------------------- *)

\* longest rule list handed to NewPatterns
MaxRules == 2
\* deepest file path (number of segments) handed to the matchers
MaxSegs == 3
\* longest pattern handed to NewPattern directly
MaxPatLen == 3
\* longest candidate string handed to Pattern.Match directly
MaxCandLen == 2

(* --------------------------- string helpers ---------------------------- *)

PathSeparator == "/"

HasPrefix(s, p) == Len(p) <= Len(s) /\ SubSeq(s, 1, Len(p)) = p

HasSuffix(s, p) == Len(p) <= Len(s) /\ SubSeq(s, Len(s) - Len(p) + 1, Len(s)) = p

\* s[from:] with a 1-based first index
Drop(s, from) == SubSeq(s, from, Len(s))

RECURSIVE SplitFrom(_, _, _, _)
SplitFrom(s, pos, cur, acc) ==
    IF pos > Len(s) THEN Append(acc, cur)
    ELSE IF s[pos] = PathSeparator THEN SplitFrom(s, pos + 1, <<>>, Append(acc, cur))
    ELSE SplitFrom(s, pos + 1, Append(cur, s[pos]), acc)

\* strings.Split(s, "/")
Split(s) == SplitFrom(s, 1, <<>>, <<>>)

RECURSIVE Join(_)
\* strings.Join(elems, "/")
Join(elems) ==
    IF Len(elems) = 0 THEN <<>>
    ELSE IF Len(elems) = 1 THEN elems[1]
    ELSE elems[1] \o <<PathSeparator>> \o Join(Tail(elems))

RECURSIVE TrimLeft(_)
TrimLeft(s) == IF Len(s) > 0 /\ s[1] = " " THEN TrimLeft(Tail(s)) ELSE s

RECURSIVE TrimRight(_)
TrimRight(s) ==
    IF Len(s) > 0 /\ s[Len(s)] = " " THEN TrimRight(SubSeq(s, 1, Len(s) - 1)) ELSE s

\* strings.TrimSpace
TrimSpace(s) == TrimRight(TrimLeft(s))

RECURSIVE CleanElems(_, _, _, _)
\* the element loop of filepath.Clean: out is the stack of kept elements
CleanElems(elems, k, rooted, out) ==
    IF k > Len(elems) THEN out
    ELSE LET e == elems[k] IN
      IF e = <<>> \/ e = <<".">> THEN CleanElems(elems, k + 1, rooted, out)
      ELSE IF e = <<".", ".">> THEN
        IF Len(out) > 0 /\ out[Len(out)] # <<".", ".">>
          THEN CleanElems(elems, k + 1, rooted, SubSeq(out, 1, Len(out) - 1))
        ELSE IF ~rooted THEN CleanElems(elems, k + 1, rooted, Append(out, e))
        ELSE CleanElems(elems, k + 1, rooted, out)
      ELSE CleanElems(elems, k + 1, rooted, Append(out, e))

\* the end of filepath.Clean: out is the cleaned text without its root
CleanResult(rooted, out) ==
    IF rooted THEN <<PathSeparator>> \o out
    ELSE IF out = <<>> THEN <<".">> ELSE out

\* filepath.Clean
Clean(path) ==
    IF path = <<>> THEN <<".">>
    ELSE CleanResult(path[1] = PathSeparator,
                     Join(CleanElems(Split(path), 1, path[1] = PathSeparator, <<>>)))

\* filepath.Dir
Dir(path) ==
    LET idx == {i \in 1..Len(path) : path[i] = PathSeparator} IN
    IF idx = {} THEN <<".">>
    ELSE LET last == CHOOSE i \in idx : \A j \in idx : j <= i
         IN Clean(SubSeq(path, 1, last))

(* ------------------------- escapeBytes bitmap -------------------------- *)

\* utf8.RuneSelf
RuneSelf == 128

\* code points of the characters the model uses; BEL stands for U+0007
Ord(c) ==
    CASE c = "BEL" -> 7
      [] c = " " -> 32  [] c = "!" -> 33  [] c = "$" -> 36  [] c = "(" -> 40
      [] c = ")" -> 41  [] c = "*" -> 42  [] c = "+" -> 43  [] c = "." -> 46
      [] c = "/" -> 47  [] c = "?" -> 63  [] c = "[" -> 91  [] c = "\\" -> 92
      [] c = "]" -> 93  [] c = "^" -> 94  [] c = "a" -> 97  [] c = "b" -> 98
      [] c = "{" -> 123 [] c = "|" -> 124 [] c = "}" -> 125

\* the bits set in a byte
Bits(x) == {n \in 0..7 : (x \div (2 ^ n)) % 2 = 1}

RECURSIVE FromBits(_)
FromBits(S) ==
    IF S = {} THEN 0
    ELSE LET n == CHOOSE m \in S : TRUE IN (2 ^ n) + FromBits(S \ {n})

\* x | y and x & y on bytes
ByteOr(x, y) == FromBits(Bits(x) \cup Bits(y))

ByteAnd(x, y) == FromBits(Bits(x) \cap Bits(y))

\* 1 << n, the constant 1 typed as a byte: the shift wraps at 8 bits
ByteShl1(n) == (2 ^ n) % 256

\* the characters init() enters in the bitmap: `.+()|{}$`
EscapeList == <<".", "+", "(", ")", "|", "{", "}", "$">>

RECURSIVE InitEscapeBytes(_, _)
\* func init(): escapeBytes[b%8] |= 1 << (b / 8), over the bytes of EscapeList
InitEscapeBytes(k, bytes) ==
    IF k > Len(EscapeList) THEN bytes
    ELSE LET b == Ord(EscapeList[k]) IN
         InitEscapeBytes(k + 1,
            [bytes EXCEPT ![b % 8] = ByteOr(bytes[b % 8], ByteShl1(b \div 8))])

\* var escapeBytes [8]byte, after init()
escapeBytes == InitEscapeBytes(1, [k \in 0..7 |-> 0])

\* shouldEscape(b rune)
shouldEscape(c) ==
    LET b == Ord(c) IN
    b < RuneSelf /\ ByteAnd(escapeBytes[b % 8], ByteShl1(b \div 8)) # 0

(* ------------------------------ Compile -------------------------------- *)

UnknownMatch == 0
ExactMatch == 1
PrefixMatch == 2
SuffixMatch == 3
RegexpMatch == 4

\* the match type after a "**": atEOF tells whether it ends the pattern
GlobstarMatchType_NoFirstToken(i, atEOF, matchType) ==
    IF atEOF /\ matchType = ExactMatch THEN PrefixMatch ELSE RegexpMatch

GlobstarMatchType(i, atEOF, matchType) ==
    IF i = 0 THEN SuffixMatch
    ELSE IF atEOF /\ matchType = ExactMatch THEN PrefixMatch
    ELSE RegexpMatch

\* the expression after a "**"
GlobstarRegStr(regStr, atEOF, matchType) ==
    IF atEOF
      THEN IF matchType = ExactMatch THEN regStr ELSE regStr \o <<".", "*">>
      ELSE regStr \o <<"(", ".", "*", PathSeparator, ")", "?">>

\* the position after a "**" at pos: a "/" that follows is eaten
AfterGlobstar(pattern, pos) ==
    IF pos + 2 <= Len(pattern) /\ pattern[pos + 2] = PathSeparator
      THEN pos + 3 ELSE pos + 2

RECURSIVE CompileScan(_, _, _, _, _)
\* the scan loop of Compile: pos is the scanner's position in pattern, i the
\* loop counter, regStr and matchType the two accumulators
CompileScan(pattern, pos, i, regStr, matchType) ==
    IF pos > Len(pattern) THEN [regStr |-> regStr, matchType |-> matchType]
    ELSE IF pattern[pos] = "*" THEN
      IF pos + 1 <= Len(pattern) /\ pattern[pos + 1] = "*" THEN
        CompileScan(pattern, AfterGlobstar(pattern, pos), i + 1,
            GlobstarRegStr(regStr, AfterGlobstar(pattern, pos) > Len(pattern), matchType),
            GlobstarMatchType(i, AfterGlobstar(pattern, pos) > Len(pattern), matchType))
      ELSE
        CompileScan(pattern, pos + 1, i + 1,
                    regStr \o <<"[", "^", PathSeparator, "]", "*">>, RegexpMatch)
    ELSE IF pattern[pos] = "?" THEN
      CompileScan(pattern, pos + 1, i + 1,
                  regStr \o <<"[", "^", PathSeparator, "]">>, RegexpMatch)
    ELSE IF shouldEscape(pattern[pos]) THEN
      CompileScan(pattern, pos + 1, i + 1, regStr \o <<"\\", pattern[pos]>>, matchType)
    ELSE IF pattern[pos] = "\\" THEN
      IF pos + 1 <= Len(pattern)
        THEN CompileScan(pattern, pos + 2, i + 1,
                         regStr \o <<"\\", pattern[pos + 1]>>, RegexpMatch)
        ELSE CompileScan(pattern, pos + 1, i + 1, regStr \o <<"\\">>, matchType)
    ELSE IF pattern[pos] = "[" \/ pattern[pos] = "]" THEN
      CompileScan(pattern, pos + 1, i + 1, regStr \o <<pattern[pos]>>, RegexpMatch)
    ELSE
      CompileScan(pattern, pos + 1, i + 1, regStr \o <<pattern[pos]>>, matchType)

(* ----------------- regexp.Compile and Regexp.MatchString ---------------- *)
(* The expressions Compile can build use: the anchors ^ and $, the class   *)
(* [...], the escape \c, the dot, a postfix *, the group (.*/)? and the    *)
(* alternation |.  A parsed expression is a sequence of alternatives, each *)
(* a sequence of items [t, neg, set, star].                                *)

Item(t, neg, set, star) == [t |-> t, neg |-> neg, set |-> set, star |-> star]

\* the characters \c stands for: a punctuation character is itself and \a
\* is the bell character (the model's only letter after a backslash is a)
EscapeSet(c) == IF c = "a" THEN {"BEL"} ELSE {c}

RECURSIVE ClassItems(_, _, _, _)
\* the body of a character class, from pos up to its closing ]; a ] that
\* comes first is a member of the class
ClassItems(r, pos, first, set) ==
    IF pos > Len(r) THEN [ok |-> FALSE, set |-> set, next |-> pos]
    ELSE IF r[pos] = "]" /\ ~first THEN [ok |-> TRUE, set |-> set, next |-> pos + 1]
    ELSE IF r[pos] = "\\" THEN
      IF pos + 1 > Len(r) THEN [ok |-> FALSE, set |-> set, next |-> pos]
      ELSE ClassItems(r, pos + 2, FALSE, set \cup EscapeSet(r[pos + 1]))
    ELSE ClassItems(r, pos + 1, FALSE, set \cup {r[pos]})

ClassResult(neg, body) ==
    [ok |-> body.ok, neg |-> neg, set |-> body.set, next |-> body.next]

\* a character class; pos is the position after its opening [
ParseClass(r, pos) ==
    IF pos <= Len(r) /\ r[pos] = "^"
      THEN ClassResult(TRUE, ClassItems(r, pos + 1, TRUE, {}))
      ELSE ClassResult(FALSE, ClassItems(r, pos, TRUE, {}))

GlobstarGroup == <<"(", ".", "*", PathSeparator, ")", "?">>

Atom(t, neg, set, next) ==
    [ok |-> TRUE, item |-> Item(t, neg, set, FALSE), next |-> next]

BadAtom == [ok |-> FALSE, item |-> Item("cls", FALSE, {}, FALSE), next |-> 0]

ClassAtom(cl) == IF cl.ok THEN Atom("cls", cl.neg, cl.set, cl.next) ELSE BadAtom

\* one atom at pos, without its repetition
ParseAtom(r, pos) ==
    IF r[pos] = "^" THEN Atom("bot", FALSE, {}, pos + 1)
    ELSE IF r[pos] = "$" THEN Atom("eot", FALSE, {}, pos + 1)
    ELSE IF r[pos] = "." THEN Atom("cls", TRUE, {}, pos + 1)
    ELSE IF r[pos] = "(" THEN
      IF SubSeq(r, pos, pos + 5) = GlobstarGroup
        THEN Atom("grp", FALSE, {}, pos + 6) ELSE BadAtom
    ELSE IF r[pos] = "[" THEN ClassAtom(ParseClass(r, pos + 1))
    ELSE IF r[pos] = "\\" THEN
      IF pos + 1 > Len(r) THEN BadAtom
      ELSE Atom("cls", FALSE, EscapeSet(r[pos + 1]), pos + 2)
    ELSE IF r[pos] \in {"*", "?", ")"} THEN BadAtom
    ELSE Atom("cls", FALSE, {r[pos]}, pos + 1)

RECURSIVE ParseFrom(_, _, _, _)
RECURSIVE ParseRepeat(_, _, _, _)

\* the parse from pos on: cur is the alternative being read, alts the
\* alternatives before it
ParseFrom(r, pos, cur, alts) ==
    IF pos > Len(r) THEN [ok |-> TRUE, alts |-> Append(alts, cur)]
    ELSE IF r[pos] = "|" THEN ParseFrom(r, pos + 1, <<>>, Append(alts, cur))
    ELSE ParseRepeat(r, cur, alts, ParseAtom(r, pos))

\* the atom a with the * that may follow it
ParseRepeat(r, cur, alts, a) ==
    IF ~a.ok THEN [ok |-> FALSE, alts |-> <<>>]
    ELSE IF a.next <= Len(r) /\ r[a.next] = "*"
      THEN ParseFrom(r, a.next + 1, Append(cur, [a.item EXCEPT !.star = TRUE]), alts)
      ELSE ParseFrom(r, a.next, Append(cur, a.item), alts)

\* regexp.Compile(regStr): ok is FALSE when it returns an error
ParseRe(r) == ParseFrom(r, 1, <<>>, <<>>)

\* InClass letting every character into every class
InClass_AnyCharacter(item, c) == TRUE

\* the character c is in the class of item
InClass(item, c) == IF item.neg THEN c \notin item.set ELSE c \in item.set

RECURSIVE MatchItems(_, _, _, _, _)
\* items[k..] match s from offset i; whole asks the match to end at the
\* end of s
MatchItems(items, k, s, i, whole) ==
    IF k > Len(items) THEN (~whole \/ i = Len(s))
    ELSE LET it == items[k] IN
      IF it.t = "bot" THEN i = 0 /\ MatchItems(items, k + 1, s, i, whole)
      ELSE IF it.t = "eot" THEN i = Len(s) /\ MatchItems(items, k + 1, s, i, whole)
      ELSE IF it.t = "grp" THEN
        \/ MatchItems(items, k + 1, s, i, whole)
        \/ \E j \in (i + 1)..Len(s) :
              s[j] = PathSeparator /\ MatchItems(items, k + 1, s, j, whole)
      ELSE IF it.star THEN
        \/ MatchItems(items, k + 1, s, i, whole)
        \/ (i < Len(s) /\ InClass(it, s[i + 1]) /\ MatchItems(items, k, s, i + 1, whole))
      ELSE i < Len(s) /\ InClass(it, s[i + 1]) /\ MatchItems(items, k + 1, s, i + 1, whole)

\* some alternative matches some substring of s
SearchAlts(alts, s) ==
    \E a \in 1..Len(alts) : \E i \in 0..Len(s) : MatchItems(alts[a], 1, s, i, FALSE)

\* (*Regexp).MatchString: the expression matches some substring of s
MatchString(re, s) == SearchAlts(ParseRe(re).alts, s)

\* the end of Compile, after the scan: the match type, the expression (<<>>
\* for nil) and whether an error is returned
CompileResult(sc) ==
    IF sc.matchType # RegexpMatch
      THEN [matchType |-> sc.matchType, regexp |-> <<>>, err |-> FALSE]
    ELSE IF ParseRe(sc.regStr \o <<"$">>).ok
      THEN [matchType |-> sc.matchType, regexp |-> sc.regStr \o <<"$">>, err |-> FALSE]
      ELSE [matchType |-> UnknownMatch, regexp |-> <<>>, err |-> TRUE]

\* Compile(pattern)
Compile(pattern) == CompileResult(CompileScan(pattern, 1, 0, <<"^">>, ExactMatch))

(* --------------------------- Pattern, Match ---------------------------- *)

NilPattern ==
    [MatchType |-> UnknownMatch, CleanedPattern |-> <<>>, Dirs |-> <<>>,
     Regexp |-> <<>>, Exclusion |-> FALSE]

\* the Pattern NewPattern builds from what Compile returned
PatternOf(pattern, exclusion, c) ==
    IF c.err THEN [p |-> NilPattern, err |-> TRUE]
    ELSE [p |-> [MatchType |-> c.matchType, CleanedPattern |-> pattern,
                 Dirs |-> Split(pattern), Regexp |-> c.regexp,
                 Exclusion |-> exclusion],
          err |-> FALSE]

\* NewPattern(pattern), pattern not empty: the pattern and whether an error
\* is returned
NewPattern(pattern) ==
    IF pattern[1] = "!" THEN
      IF Len(pattern) = 1 THEN [p |-> NilPattern, err |-> TRUE]
      ELSE PatternOf(Tail(pattern), TRUE, Compile(Tail(pattern)))
    ELSE PatternOf(pattern, FALSE, Compile(pattern))

\* (p *Pattern) Match(path)
Match(p, path) ==
    IF p.MatchType = ExactMatch THEN path = p.CleanedPattern
    ELSE IF p.MatchType = PrefixMatch THEN
      HasPrefix(path, SubSeq(p.CleanedPattern, 1, Len(p.CleanedPattern) - 2))
    ELSE IF p.MatchType = SuffixMatch THEN
      IF HasSuffix(path, Drop(p.CleanedPattern, 3)) THEN TRUE
      ELSE /\ p.CleanedPattern[3] = PathSeparator
           /\ path = Drop(p.CleanedPattern, 4)
    ELSE IF p.MatchType = RegexpMatch THEN MatchString(p.Regexp, path)
    ELSE FALSE

(* ------------------- filepath.Match's syntax check --------------------- *)

\* getEsc: one possibly escaped character of a class, at pos
GetEsc(p, pos) ==
    IF pos > Len(p) \/ p[pos] \in {"-", "]"} THEN [ok |-> FALSE, next |-> pos]
    ELSE LET q == IF p[pos] = "\\" THEN pos + 1 ELSE pos IN
      IF q > Len(p) \/ q + 1 > Len(p) THEN [ok |-> FALSE, next |-> pos]
      ELSE [ok |-> TRUE, next |-> q + 1]

RECURSIVE GlobRanges(_, _, _)
\* the ranges of a class up to its closing ], which needs one range before it
GlobRanges(p, pos, nrange) ==
    IF pos <= Len(p) /\ p[pos] = "]" /\ nrange > 0 THEN [ok |-> TRUE, next |-> pos + 1]
    ELSE LET lo == GetEsc(p, pos) IN
      IF ~lo.ok THEN [ok |-> FALSE, next |-> pos]
      ELSE IF p[lo.next] = "-" THEN
        LET hi == GetEsc(p, lo.next + 1) IN
        IF ~hi.ok THEN [ok |-> FALSE, next |-> pos]
        ELSE GlobRanges(p, hi.next, nrange + 1)
      ELSE GlobRanges(p, lo.next, nrange + 1)

RECURSIVE BadPatternFrom(_, _)
RECURSIVE BadAfterClass(_, _)

BadPatternFrom(p, pos) ==
    IF pos > Len(p) THEN FALSE
    ELSE IF p[pos] = "\\" THEN
      IF pos = Len(p) THEN TRUE ELSE BadPatternFrom(p, pos + 2)
    ELSE IF p[pos] = "[" THEN
      BadAfterClass(p, GlobRanges(p, IF pos + 1 <= Len(p) /\ p[pos + 1] = "^"
                                        THEN pos + 2 ELSE pos + 1, 0))
    ELSE BadPatternFrom(p, pos + 1)

BadAfterClass(p, cl) == IF cl.ok THEN BadPatternFrom(p, cl.next) ELSE TRUE

\* whether filepath.Match(p, ".") returns ErrBadPattern
FilepathMatchErr(p) == BadPatternFrom(p, 1)

(* ---------------------------- NewPatterns ------------------------------ *)

RECURSIVE NewPatternsLoop(_, _, _)
RECURSIVE NewPatternsAppend(_, _, _, _)
RECURSIVE NewPatternsCheck(_, _, _, _)

\* NewPatternsAppend returning, on an error, the rules compiled so far
NewPatternsAppend_KeepsCompiled(raw, k, matchPatters, newp) ==
    IF newp.err THEN [patterns |-> matchPatters, err |-> TRUE]
    ELSE NewPatternsLoop(raw, k + 1, Append(matchPatters, newp.p))

\* NewPatternsAppend putting the new rule in front
NewPatternsAppend_Prepends(raw, k, matchPatters, newp) ==
    IF newp.err THEN [patterns |-> <<>>, err |-> TRUE]
    ELSE NewPatternsLoop(raw, k + 1, <<newp.p>> \o matchPatters)

\* the loop of NewPatterns, at rule string k
NewPatternsLoop(raw, k, matchPatters) ==
    IF k > Len(raw) THEN [patterns |-> matchPatters, err |-> FALSE]
    ELSE IF TrimSpace(raw[k]) = <<>> THEN NewPatternsLoop(raw, k + 1, matchPatters)
    ELSE NewPatternsCheck(raw, k, matchPatters, Clean(TrimSpace(raw[k])))

\* p is the trimmed and cleaned rule string
NewPatternsCheck(raw, k, matchPatters, p) ==
    IF FilepathMatchErr(p) THEN [patterns |-> <<>>, err |-> TRUE]
    ELSE NewPatternsAppend(raw, k, matchPatters, NewPattern(p))

NewPatternsAppend(raw, k, matchPatters, newp) ==
    IF newp.err THEN [patterns |-> <<>>, err |-> TRUE]
    ELSE NewPatternsLoop(raw, k + 1, Append(matchPatters, newp.p))

\* NewPatterns(patterns): the rule set (<<>> for nil) and whether an error
\* is returned
NewPatterns(raw) == NewPatternsLoop(raw, 1, <<>>)

(* ----------------------- the rule-set matchers ------------------------- *)

\* the loop over parentPathDirs: the pattern matches one of the prefixes
\* Join(parentPathDirs[:i+1])
ParentDirsMatch(pattern, parentPathDirs) ==
    \E i \in 1..Len(parentPathDirs) : Match(pattern, Join(SubSeq(parentPathDirs, 1, i)))

\* MOPMMatch without the scan of the parent directories
MOPMMatch_DirectOnly(pattern, parentPath, direct) == direct

\* the match of one rule in MatchesOrParentMatches: direct, or through a
\* parent directory
MOPMMatch(pattern, parentPath, direct) ==
    IF ~direct /\ parentPath # <<".">>
      THEN ParentDirsMatch(pattern, Split(parentPath))
      ELSE direct

RECURSIVE MOPMLoop(_, _, _, _, _)
RECURSIVE MOPMNext(_, _, _, _, _, _)

\* MOPMNext setting the verdict whatever the rule's exclusion flag
MOPMNext_IgnoresExclusion(patterns, k, file, parentPath, matched, match) ==
    MOPMLoop(patterns, k + 1, file, parentPath, IF match THEN TRUE ELSE matched)

\* the loop of MatchesOrParentMatches, at rule k
MOPMLoop(patterns, k, file, parentPath, matched) ==
    IF k > Len(patterns) THEN matched
    ELSE IF patterns[k].Exclusion # matched
      THEN MOPMLoop(patterns, k + 1, file, parentPath, matched)
    ELSE MOPMNext(patterns, k, file, parentPath, matched,
                  MOPMMatch(patterns[k], parentPath, Match(patterns[k], file)))

MOPMNext(patterns, k, file, parentPath, matched, match) ==
    MOPMLoop(patterns, k + 1, file, parentPath,
             IF match THEN ~patterns[k].Exclusion ELSE matched)

\* MatchesOrParentMatches after filepath.Clean
MOPMCleaned(patterns, file) ==
    IF file = <<".">> THEN FALSE
    ELSE MOPMLoop(patterns, 1, file, Dir(file), FALSE)

\* MatchesOrParentMatches(patterns, file); it returns no error
MatchesOrParentMatches(patterns, file) == MOPMCleaned(patterns, Clean(file))

\* MUPRMatch without the scan of the parent directories
MUPRMatch_DirectOnly(pattern, file, parentMatched, direct) == direct

\* the match of one rule the parent did not match, in
\* MatchesUsingParentResults
MUPRMatch(pattern, file, parentMatched, direct) ==
    IF ~direct /\ Len(parentMatched) = 0 /\ Dir(file) # <<".">>
      THEN ParentDirsMatch(pattern, Split(Dir(file)))
      ELSE direct

RECURSIVE MUPRLoop(_, _, _, _, _, _)
RECURSIVE MUPRNext(_, _, _, _, _, _, _)

\* MUPRLoop testing the rules the parent matched again, like the others
MUPRLoop_RetestsInherited(patterns, k, file, parentMatched, matched, matchInfo) ==
    IF k > Len(patterns) THEN [matched |-> matched, matchInfo |-> matchInfo]
    ELSE IF patterns[k].Exclusion # matched
      THEN MUPRLoop(patterns, k + 1, file, parentMatched, matched,
                    Append(matchInfo, FALSE))
    ELSE MUPRNext(patterns, k, file, parentMatched, matched, matchInfo,
                  MUPRMatch(patterns[k], file, parentMatched,
                            Match(patterns[k], file)))

\* MUPRLoop testing every rule the parent did not match, skipping none
MUPRLoop_NeverSkips(patterns, k, file, parentMatched, matched, matchInfo) ==
    IF k > Len(patterns) THEN [matched |-> matched, matchInfo |-> matchInfo]
    ELSE IF Len(parentMatched) # 0 /\ parentMatched[k]
      THEN MUPRNext(patterns, k, file, parentMatched, matched, matchInfo, TRUE)
    ELSE MUPRNext(patterns, k, file, parentMatched, matched, matchInfo,
                  MUPRMatch(patterns[k], file, parentMatched,
                            Match(patterns[k], file)))

\* the loop of MatchesUsingParentResults, at rule k
MUPRLoop(patterns, k, file, parentMatched, matched, matchInfo) ==
    IF k > Len(patterns) THEN [matched |-> matched, matchInfo |-> matchInfo]
    ELSE IF Len(parentMatched) # 0 /\ parentMatched[k]
      THEN MUPRNext(patterns, k, file, parentMatched, matched, matchInfo, TRUE)
    ELSE IF patterns[k].Exclusion # matched
      THEN MUPRLoop(patterns, k + 1, file, parentMatched, matched,
                    Append(matchInfo, FALSE))
    ELSE MUPRNext(patterns, k, file, parentMatched, matched, matchInfo,
                  MUPRMatch(patterns[k], file, parentMatched,
                            Match(patterns[k], file)))

\* MUPRNext keeping the verdict of the first rule that matched
MUPRNext_FirstMatchWins(patterns, k, file, parentMatched, matched, matchInfo, match) ==
    MUPRLoop(patterns, k + 1, file, parentMatched,
             IF match /\ \A j \in 1..Len(matchInfo) : ~matchInfo[j]
               THEN ~patterns[k].Exclusion ELSE matched,
             Append(matchInfo, match))

\* the end of an iteration of the loop: the match is recorded and, when
\* true, gives the running verdict
MUPRNext(patterns, k, file, parentMatched, matched, matchInfo, match) ==
    MUPRLoop(patterns, k + 1, file, parentMatched,
             IF match THEN ~patterns[k].Exclusion ELSE matched,
             Append(matchInfo, match))

MUPRResult(r) ==
    [matched |-> r.matched, matchInfo |-> r.matchInfo, infoNil |-> FALSE,
     err |-> FALSE]

\* MatchesUsingParentResults refusing an empty parentMatched too
MatchesUsingParentResults_RefusesEmpty(patterns, file, parentMatched) ==
    IF Len(parentMatched) # Len(patterns)
      THEN [matched |-> FALSE, matchInfo |-> <<>>, infoNil |-> TRUE, err |-> TRUE]
    ELSE MUPRResult(MUPRLoop(patterns, 1, file, parentMatched, FALSE, <<>>))

\* MatchesUsingParentResults(patterns, file, parentMatched): the verdict,
\* the match info (infoNil when it is nil) and whether an error is returned
MatchesUsingParentResults(patterns, file, parentMatched) ==
    IF Len(parentMatched) # 0 /\ Len(parentMatched) # Len(patterns)
      THEN [matched |-> FALSE, matchInfo |-> <<>>, infoNil |-> TRUE, err |-> TRUE]
    ELSE MUPRResult(MUPRLoop(patterns, 1, file, parentMatched, FALSE, <<>>))

(* ------------------------------ inputs --------------------------------- *)

RECURSIVE SeqsUpTo(_, _)
\* the sequences over S of length at most n
SeqsUpTo(S, n) ==
    IF n = 0 THEN {<<>>}
    ELSE LET shorter == SeqsUpTo(S, n - 1) IN
         shorter \cup {Append(q, x) : q \in shorter, x \in S}

\* the rule strings a client hands to NewPatterns: every match type, with
\* and without the negation marker, strings to trim and to clean, a blank
\* string, and the two kinds of malformed rule
RuleStrings ==
    { <<"a">>, <<"!", "a">>, <<"a", "/", "b">>, <<"!", "a", "/", "b">>,
      <<"*">>, <<"*", "*", "/", "b">>, <<"a", "/", "*", "*">>,
      <<" ", "a", "/", " ">>, <<" ">>, <<"!">>, <<"[">> }

RuleLists == SeqsUpTo(RuleStrings, MaxRules)

Segments == {<<"a">>, <<"b">>}

\* lexically cleaned relative paths of 1..MaxSegs segments
RelPaths == {Join(q) : q \in SeqsUpTo(Segments, MaxSegs) \ {<<>>}}

\* paths that clean to "."
DotFiles == {<<".">>, <<>>, <<".", "/">>, <<"a", "/", ".", ".">>}

\* a path that is not in cleaned form
UncleanFiles == {<<"a", "/">>}

Files == RelPaths \cup DotFiles \cup UncleanFiles

\* the parentMatched arguments: none, every vector of the right length, and
\* vectors of a wrong length
ParentStates(n) ==
    {<<>>} \cup [1..n -> BOOLEAN]
           \cup {[i \in 1..k |-> TRUE] : k \in (1..(MaxRules + 1)) \ {n}}

PatternChars == {"a", "/", "*", "?", "\\", "[", "]", "$", "|"}

\* the non-empty patterns handed to NewPattern directly
PatternStrings == SeqsUpTo(PatternChars, MaxPatLen) \ {<<>>}

CandidateChars == {"a", "/", "$"}

\* the strings handed to Pattern.Match directly
Candidates == SeqsUpTo(CandidateChars, MaxCandLen)

(* --------------------------- state machine ----------------------------- *)

VARIABLES
    pc,        \* "start" before the rule set is built, "ready" after
    input,     \* the rule strings the rule set was built from
    patterns,  \* the rule set NewPatterns / NewPattern returned (<<>> for nil)
    perr,      \* whether building it returned an error
    res        \* the matcher call made on the rule set (the matchers keep no
               \* state between calls): its arguments and what it returned

vars == <<pc, input, patterns, perr, res>>

NoCall ==
    [op |-> "none", file |-> <<>>, parentMatched |-> <<>>, matched |-> FALSE,
     matchInfo |-> <<>>, infoNil |-> TRUE, err |-> FALSE, target |-> <<>>,
     depth |-> 0]

Init ==
    /\ pc = "start"
    /\ input = <<>>
    /\ patterns = <<>>
    /\ perr = FALSE
    /\ res = NoCall

BuildRecord(raw, r) ==
    /\ input' = raw
    /\ patterns' = r.patterns
    /\ perr' = r.err

\* a client builds its rule set from a list of rule strings
NewPatternsCall ==
    /\ pc = "start"
    /\ \E raw \in RuleLists : BuildRecord(raw, NewPatterns(raw))
    /\ pc' = "ready"
    /\ UNCHANGED res

CompileRecord(pattern, r) ==
    /\ input' = <<pattern>>
    /\ patterns' = IF r.err THEN <<>> ELSE <<r.p>>
    /\ perr' = r.err

\* a client compiles one rule with NewPattern
NewPatternCall ==
    /\ pc = "start"
    /\ \E pattern \in PatternStrings : CompileRecord(pattern, NewPattern(pattern))
    /\ pc' = "ready"
    /\ UNCHANGED res

\* a client asks one rule about one string
MatchCall ==
    /\ pc = "ready" /\ ~perr /\ res.op = "none"
    /\ \E path \in Candidates :
         res' = [NoCall EXCEPT !.op = "Match", !.file = path,
                               !.matched = Match(patterns[1], path)]
    /\ UNCHANGED <<pc, input, patterns, perr>>

MatchesOrParentMatchesCall ==
    /\ pc = "ready" /\ ~perr /\ res.op = "none"
    /\ \E file \in Files :
         res' = [NoCall EXCEPT !.op = "MatchesOrParentMatches", !.file = file,
                               !.matched = MatchesOrParentMatches(patterns, file)]
    /\ UNCHANGED <<pc, input, patterns, perr>>

\* the record of a MatchesUsingParentResults call that returned r
CallRecord(op, file, target, depth, parentMatched, r) ==
    [NoCall EXCEPT !.op = op, !.file = file, !.target = target, !.depth = depth,
                   !.parentMatched = parentMatched,
                   !.matched = r.matched, !.matchInfo = r.matchInfo,
                   !.infoNil = r.infoNil, !.err = r.err]

MatchesUsingParentResultsCall ==
    /\ pc = "ready" /\ ~perr /\ res.op = "none"
    /\ \E file \in Files : \E parentMatched \in ParentStates(Len(patterns)) :
         res' = CallRecord("MatchesUsingParentResults", file, <<>>, 0, parentMatched,
                    MatchesUsingParentResults(patterns, file, parentMatched))
    /\ UNCHANGED <<pc, input, patterns, perr>>

\* the prefix of path made of its first k segments
PathPrefix(path, k) == Join(SubSeq(Split(path), 1, k))

\* one call of a top-down walk towards target: the first depth segments,
\* with the match info the call on the parent returned
WalkCall(target, depth, parentMatchInfo) ==
    CallRecord("Walk", PathPrefix(target, depth), target, depth, parentMatchInfo,
        MatchesUsingParentResults(patterns, PathPrefix(target, depth), parentMatchInfo))

\* a walk starts at the first segment of a path, with no parent results
WalkStart ==
    /\ pc = "ready" /\ ~perr /\ res.op = "none"
    /\ \E target \in RelPaths : res' = WalkCall(target, 1, <<>>)
    /\ UNCHANGED <<pc, input, patterns, perr>>

\* and descends one segment at a time, handing each call's match info to
\* the next
WalkStep ==
    /\ pc = "ready" /\ ~perr
    /\ res.op = "Walk" /\ ~res.err
    /\ res.depth < Len(Split(res.target))
    /\ res' = WalkCall(res.target, res.depth + 1, res.matchInfo)
    /\ UNCHANGED <<pc, input, patterns, perr>>

Next ==
    \/ NewPatternsCall
    \/ MatchesOrParentMatchesCall
    \/ MatchesUsingParentResultsCall
    \/ WalkStart
    \/ WalkStep

Spec == Init /\ [][Next]_vars

NextCompile ==
    \/ NewPatternCall
    \/ MatchCall

SpecCompile == Init /\ [][NextCompile]_vars

(* ------------------------------- claims -------------------------------- *)

\* the walk has made its last call, the one on the target path itself
WalkDone == res.op = "Walk" /\ res.depth = Len(Split(res.target))

\* C1: for every rule list and every cleaned relative path other than ".",
\* MatchesOrParentMatches returns the verdict MatchesUsingParentResults
\* returns at the end of a walk that calls it on every ancestor prefix of
\* the path in order, from an empty state, handing each call's match info
\* to the next call.
C1_WalkAgreesWithFullScan ==
    WalkDone => res.matched = MatchesOrParentMatches(patterns, res.target)

\* the rule set was built by NewPatterns, without error
Built == pc = "ready" /\ ~perr

Max(S) == CHOOSE x \in S : \A y \in S : y <= x

\* the ancestor directories of a cleaned relative path, as paths
AncestorPrefixes(path) == {PathPrefix(path, k) : k \in 1..(Len(Split(path)) - 1)}

\* the rule matches the path itself or one of its ancestor directories
RuleApplies(rule, path) ==
    Match(rule, path) \/ \E dir \in AncestorPrefixes(path) : Match(rule, dir)

Applying(rules, path) == {i \in 1..Len(rules) : RuleApplies(rules[i], path)}

\* the verdict of the last applying rule, FALSE when no rule applies
LastRuleVerdict(rules, path) ==
    IF Applying(rules, path) = {} THEN FALSE
    ELSE ~rules[Max(Applying(rules, path))].Exclusion

\* C2: for a path that does not clean to ".", MatchesOrParentMatches
\* returns the negation of the exclusion flag of the last rule, in list
\* order, that matches the path or one of its ancestor directories, and
\* FALSE when no rule does; the skipped rules never change this.
C2_LastApplyingRuleWins ==
    (res.op = "MatchesOrParentMatches" /\ Clean(res.file) # <<".">>)
        => res.matched = LastRuleVerdict(patterns, Clean(res.file))

\* C2 witness: "*" then "!a" on "a": the later exclusion wins
C2_Witness ==
    /\ res.op = "MatchesOrParentMatches"
    /\ input = <<<<"*">>, <<"!", "a">>>>
    /\ res.file = <<"a">>
    /\ ~res.matched

\* C3: a path that cleans to "." is never matched, by MatchesOrParentMatches
\* or by MatchesUsingParentResults with an empty or a length-valid parent
\* state, whatever the rules.
C3_DotNeverMatches ==
    (/\ res.op \in {"MatchesOrParentMatches", "MatchesUsingParentResults"}
     /\ ~res.err
     /\ Clean(res.file) = <<".">>)
        => ~res.matched

\* C4: MatchesUsingParentResults returns an error exactly when parentMatched
\* is not empty and its length is not the number of rules; then the verdict
\* is false and the match info nil.  Whatever booleans a state of the right
\* length holds, there is no error.
C4_ErrorIffLengthMismatch ==
    res.op = "MatchesUsingParentResults" =>
        /\ res.err <=> (Len(res.parentMatched) # 0
                        /\ Len(res.parentMatched) # Len(patterns))
        /\ res.err => (~res.matched /\ res.infoNil /\ res.matchInfo = <<>>)
        /\ ~res.err => ~res.infoNil

\* C4 witness: a parent state of a wrong length was refused
C4_Witness ==
    /\ res.op = "MatchesUsingParentResults"
    /\ res.err
    /\ Len(patterns) > 0

\* the rule string does not compile: it is not blank and filepath.Match or
\* NewPattern refuses it
FailsToCompile(raw) ==
    /\ TrimSpace(raw) # <<>>
    /\ \/ FilepathMatchErr(Clean(TrimSpace(raw)))
       \/ NewPattern(Clean(TrimSpace(raw))).err

\* C5: NewPatterns returns an error, and no rule set at all, as soon as one
\* rule string of the list does not compile, wherever it stands; a rule
\* that is "!" after trimming never compiles.
C5_AllOrNothing ==
    pc = "ready" =>
        /\ perr <=> \E k \in 1..Len(input) : FailsToCompile(input[k])
        /\ perr => patterns = <<>>
        /\ (\E k \in 1..Len(input) : TrimSpace(input[k]) = <<"!">>) => perr

\* C5 witness: the rule that fails comes after one that compiled
C5_Witness ==
    /\ pc = "ready" /\ perr
    /\ Len(input) >= 2
    /\ ~FailsToCompile(input[1]) /\ TrimSpace(input[1]) # <<>>
    /\ FailsToCompile(input[Len(input)])

IsNonBlank(raw) == TrimSpace(raw) # <<>>

\* the rule string a rule was compiled from
RuleText(rule) ==
    IF rule.Exclusion THEN <<"!">> \o rule.CleanedPattern ELSE rule.CleanedPattern

\* C6: when NewPatterns succeeds, the rule set has one rule per input string
\* that is not blank after trimming, in the order of the inputs: nothing is
\* reordered, merged or dropped as a duplicate.
C6_OneRulePerNonBlankInOrder ==
    Built =>
        /\ Len(patterns) = Len(SelectSeq(input, IsNonBlank))
        /\ \A k \in 1..Len(patterns) :
              RuleText(patterns[k]) = Clean(TrimSpace(SelectSeq(input, IsNonBlank)[k]))

\* C6 witness: a blank string was dropped and a rule kept
C6_Witness ==
    /\ Built
    /\ Len(patterns) >= 1
    /\ Len(patterns) < Len(input)

\* a lexically cleaned path other than "."
IsCleaned(path) == Clean(path) = path /\ path # <<".">>

\* C7: with an empty parent state, MatchesUsingParentResults returns the
\* verdict of MatchesOrParentMatches, for every rule list and every cleaned
\* path other than ".".
C7_EmptyStateIsFullScan ==
    (/\ res.op = "MatchesUsingParentResults"
     /\ res.parentMatched = <<>>
     /\ IsCleaned(res.file))
        => res.matched = MatchesOrParentMatches(patterns, res.file)

\* C7 witness: the path is matched through an ancestor directory only
C7_Witness ==
    /\ res.op = "MatchesUsingParentResults"
    /\ res.parentMatched = <<>>
    /\ IsCleaned(res.file)
    /\ res.matched
    /\ \A i \in 1..Len(patterns) : ~Match(patterns[i], res.file)

\* path lies below the directory dir
IsBelow(path, dir) == HasPrefix(path, dir \o <<PathSeparator>>)

NoExclusions == \A i \in 1..Len(patterns) : ~patterns[i].Exclusion

\* C8: with no exclusion rule in the list, a directory that
\* MatchesOrParentMatches matches has every path below it matched.
C8_DirectoryMatchCoversDescendants ==
    (/\ res.op = "MatchesOrParentMatches"
     /\ res.file \in RelPaths
     /\ NoExclusions
     /\ res.matched)
        => \A path \in RelPaths :
              IsBelow(path, res.file) => MatchesOrParentMatches(patterns, path)

\* C8 witness: a path two levels below the matched directory that no rule
\* matches directly
C8_Witness ==
    /\ res.op = "MatchesOrParentMatches"
    /\ res.file \in RelPaths
    /\ NoExclusions
    /\ res.matched
    /\ \E path \in RelPaths :
          /\ IsBelow(path, res.file)
          /\ Len(Split(path)) = Len(Split(res.file)) + 2
          /\ \A i \in 1..Len(patterns) : ~Match(patterns[i], path)

RECURSIVE TokensFrom(_, _, _)
\* the tokens of a pattern: "globstar" for "**" with the "/" that may follow
\* it, "star", "quest", "bracket" for "[" or "]", "escaped" for a backslash
\* and the character after it, "literal" for anything else, a backslash
\* that ends the pattern included
TokensFrom(pattern, pos, acc) ==
    IF pos > Len(pattern) THEN acc
    ELSE IF pattern[pos] = "*" /\ pos < Len(pattern) /\ pattern[pos + 1] = "*" THEN
      TokensFrom(pattern,
                 IF pos + 2 <= Len(pattern) /\ pattern[pos + 2] = PathSeparator
                   THEN pos + 3 ELSE pos + 2,
                 Append(acc, "globstar"))
    ELSE IF pattern[pos] = "*" THEN TokensFrom(pattern, pos + 1, Append(acc, "star"))
    ELSE IF pattern[pos] = "?" THEN TokensFrom(pattern, pos + 1, Append(acc, "quest"))
    ELSE IF pattern[pos] \in {"[", "]"}
      THEN TokensFrom(pattern, pos + 1, Append(acc, "bracket"))
    ELSE IF pattern[pos] = "\\" /\ pos < Len(pattern)
      THEN TokensFrom(pattern, pos + 2, Append(acc, "escaped"))
    ELSE TokensFrom(pattern, pos + 1, Append(acc, "literal"))

Tokens(pattern) == TokensFrom(pattern, 1, <<>>)

\* token k upgrades the classification to Regexp: a "*", "?", "[", "]" or
\* escaped character, or a "**" that is not the first token and does not
\* end a pattern of literals
Upgrades(tokens, k) ==
    \/ tokens[k] \in {"star", "quest", "bracket", "escaped"}
    \/ /\ tokens[k] = "globstar"
       /\ k # 1
       /\ ~(k = Len(tokens) /\ \A j \in 1..(k - 1) : tokens[j] = "literal")

\* the classification the tokens give
Classification(tokens) ==
    IF \E k \in 1..Len(tokens) : Upgrades(tokens, k) THEN RegexpMatch
    ELSE IF tokens[1] = "globstar" THEN SuffixMatch
    ELSE IF tokens[Len(tokens)] = "globstar" THEN PrefixMatch
    ELSE ExactMatch

\* a pattern was handed to NewPattern
Compiled == pc = "ready" /\ Len(input) = 1

MatchesWhole(re, s) ==
    \E a \in 1..Len(ParseRe(re).alts) : MatchItems(ParseRe(re).alts[a], 1, s, 0, TRUE)

\* C10: a rule with the Regexp strategy, built from a pattern that compiles
\* without error, matches a path only when its expression matches the whole
\* path, never a prefix or another substring of it.
C10_RegexpMatchesWholePath ==
    (/\ res.op = "Match"
     /\ patterns[1].MatchType = RegexpMatch
     /\ res.matched)
        => MatchesWhole(patterns[1].Regexp, res.file)

(* ------------------------- C11: the single star ------------------------ *)

\* the patterns made of literal characters and single stars, one at least
IsStarPattern(pattern) ==
    /\ \A k \in 1..Len(pattern) : pattern[k] \in {"a", "/", "$", "*"}
    /\ \E k \in 1..Len(pattern) : pattern[k] = "*"
    /\ \A k \in 1..(Len(pattern) - 1) : ~(pattern[k] = "*" /\ pattern[k + 1] = "*")

RECURSIVE GlobFrom(_, _, _, _, _)
\* pattern[i..] matches s[j..] when every star stands for min or more
\* characters, none of them the separator, and every other character for
\* itself
GlobFrom(pattern, i, s, j, min) ==
    IF i > Len(pattern) THEN j > Len(s)
    ELSE IF pattern[i] = "*" THEN
      \E n \in min..(Len(s) - j + 1) :
          /\ \A m \in j..(j + n - 1) : s[m] # PathSeparator
          /\ GlobFrom(pattern, i + 1, s, j + n, min)
    ELSE j <= Len(s) /\ s[j] = pattern[i] /\ GlobFrom(pattern, i + 1, s, j + 1, min)

\* a pattern of literals and single stars was asked about a string
StarMatchCalled == res.op = "Match" /\ IsStarPattern(input[1])

\* C11, as stated: a single "*" stands for one or more characters, none of
\* them the separator: it never matches across a "/" and it does not match
\* the empty string.
C11_StarIsOneOrMore ==
    StarMatchCalled => (res.matched <=> GlobFrom(input[1], 1, res.file, 1, 1))

\* C11, amended: a single "*" stands for zero or more characters, none of
\* them the separator: it never matches across a "/", and it does match the
\* empty string.
C11_StarIsZeroOrMore ==
    StarMatchCalled => (res.matched <=> GlobFrom(input[1], 1, res.file, 1, 0))

\* C11 witness: a star matched the empty string
C11_Witness ==
    /\ StarMatchCalled
    /\ res.matched
    /\ ~GlobFrom(input[1], 1, res.file, 1, 1)

(* --------------------------- C12: the skip ----------------------------- *)

\* a MatchesUsingParentResults call, alone or in a walk, returned no error
MUPRReturned == res.op \in {"MatchesUsingParentResults", "Walk"} /\ ~res.err

\* rule k is inherited from the parent
Inherited(k) == Len(res.parentMatched) # 0 /\ res.parentMatched[k]

\* the entries of info before k that are true
TrueBefore(info, k) == {j \in 1..(k - 1) : info[j]}

\* the running verdict when rule k is reached: that of the last rule before
\* k whose recorded match is true
RunningVerdict(rules, info, k) ==
    IF TrueBefore(info, k) = {} THEN FALSE
    ELSE ~rules[Max(TrueBefore(info, k))].Exclusion

\* what testing rule k against the call's path gives
TestResult(k) ==
    MUPRMatch(patterns[k], res.file, res.parentMatched, Match(patterns[k], res.file))

\* the entry recorded for rule k when the rules whose exclusion flag equals
\* the running verdict (skipWhenEqual) or differs from it (otherwise) are
\* skipped: FALSE for a skipped rule, the result of the test for the others
EntrySkipping(k, skipWhenEqual) ==
    IF (patterns[k].Exclusion = RunningVerdict(patterns, res.matchInfo, k)) = skipWhenEqual
      THEN FALSE
      ELSE TestResult(k)

RECURSIVE VerdictSkipping(_, _, _, _, _)
\* the verdict of the rule loop from rule k on, with the same skip
VerdictSkipping(rules, k, path, matched, skipWhenEqual) ==
    IF k > Len(rules) THEN matched
    ELSE IF (rules[k].Exclusion = matched) = skipWhenEqual
      THEN VerdictSkipping(rules, k + 1, path, matched, skipWhenEqual)
    ELSE VerdictSkipping(rules, k + 1, path,
             IF RuleApplies(rules[k], path) THEN ~rules[k].Exclusion ELSE matched,
             skipWhenEqual)

\* the calls' results with the given skip
SkipIs(skipWhenEqual) ==
    /\ MUPRReturned =>
         \A k \in 1..Len(patterns) :
             ~Inherited(k) => res.matchInfo[k] = EntrySkipping(k, skipWhenEqual)
    /\ (res.op = "MatchesOrParentMatches" /\ Clean(res.file) # <<".">>) =>
         res.matched = VerdictSkipping(patterns, 1, Clean(res.file), FALSE, skipWhenEqual)

\* C12, as stated: in the rule loop of MatchesOrParentMatches, and in
\* MatchesUsingParentResults for a rule not inherited from the parent, a
\* rule is skipped without being tested exactly when its exclusion flag
\* equals the running verdict.
C12_SkippedWhenExclusionEqualsVerdict == SkipIs(TRUE)

\* C12, amended: a rule is skipped without being tested exactly when its
\* exclusion flag differs from the running verdict: an inclusion once the
\* path is matched, an exclusion while it is not.
C12_SkippedWhenExclusionDiffersFromVerdict == SkipIs(FALSE)

\* C12 witness: a rule that matches the path was skipped, and recorded as
\* not matching, after another rule was tested and matched
C12_Witness ==
    /\ MUPRReturned
    /\ \E k \in 2..Len(patterns) :
         /\ ~Inherited(k) /\ ~Inherited(k - 1)
         /\ res.matchInfo[k - 1]
         /\ patterns[k].Exclusion # RunningVerdict(patterns, res.matchInfo, k)
         /\ Match(patterns[k], res.file)
         /\ ~res.matchInfo[k]

(* ------------------------- C13: inheritance ---------------------------- *)

\* rule k is the last rule whose entry in the returned state is true
LastTrueEntry(k) ==
    res.matchInfo[k] /\ \A j \in (k + 1)..Len(patterns) : ~res.matchInfo[j]

\* every inherited rule has a true entry in the returned state and, when no
\* later rule matched, gives the verdict
InheritedRulesKept ==
    MUPRReturned =>
        \A k \in 1..Len(patterns) :
            Inherited(k) =>
                /\ res.matchInfo[k]
                /\ LastTrueEntry(k) => res.matched = ~patterns[k].Exclusion

\* from one call of a walk to the next, a true entry stays true
EntriesStayTrue ==
    (res.op = "Walk" /\ res'.op = "Walk") =>
        \A k \in 1..Len(patterns) : res.matchInfo[k] => res'.matchInfo[k]

\* C13: in MatchesUsingParentResults every rule whose entry in the parent
\* state is true is inherited: whatever the path, its entry in the returned
\* state is true and it sets the running verdict to the negation of its
\* exclusion flag; so along a walk from a root-level path down to a
\* descendant, an entry that is true stays true in every deeper call.
C13_InheritedEntriesStayTrue == []InheritedRulesKept /\ [][EntriesStayTrue]_vars

\* C13 witness: a deeper call of a walk inherited a rule that does not match
\* its path, recorded it as matching and took its verdict from it
C13_Witness ==
    /\ res.op = "Walk" /\ res.depth >= 2
    /\ \E k \in 1..Len(patterns) :
         /\ Inherited(k)
         /\ ~Match(patterns[k], res.file)
         /\ LastTrueEntry(k)
         /\ res.matched = ~patterns[k].Exclusion

(* ------------------ C14: the verdict and the state --------------------- *)

\* C14: after every MatchesUsingParentResults call that returns no error,
\* whatever the rules, the path and the parent state, the returned state
\* has one entry per rule and the verdict is the negation of the exclusion
\* flag of the last rule whose entry is true, FALSE when no entry is true.
C14_VerdictFromReturnedState ==
    MUPRReturned =>
        /\ ~res.infoNil
        /\ Len(res.matchInfo) = Len(patterns)
        /\ res.matched = RunningVerdict(patterns, res.matchInfo, Len(patterns) + 1)

\* C14 witness: an inclusion and a later exclusion both have a true entry,
\* and the verdict is the exclusion's
C14_Witness ==
    /\ MUPRReturned
    /\ \E j \in 1..Len(patterns) : \E k \in (j + 1)..Len(patterns) :
         /\ res.matchInfo[j] /\ ~patterns[j].Exclusion
         /\ LastTrueEntry(k) /\ patterns[k].Exclusion
    /\ ~res.matched

(* ---------------------- C15: the Suffix fast path ---------------------- *)

\* a leading "**" followed by literal text, one character at least
IsGlobstarThenLiteral(pattern) ==
    /\ Len(pattern) >= 3
    /\ pattern # <<"*", "*", "/">>
    /\ SubSeq(pattern, 1, 2) = <<"*", "*">>
    /\ \A k \in 3..Len(pattern) : pattern[k] \in {"a", "/", "$"}

\* the anchored expression the scan of Compile builds for a pattern
ScanExpression(pattern) ==
    CompileScan(pattern, 1, 0, <<"^">>, ExactMatch).regStr \o <<"$">>

\* C15: the Suffix strategy is a pure optimisation: for a pattern made of a
\* leading "**", an optional separator and literal text, Match returns on
\* every path what the anchored expression built by the scan of Compile,
\* "^(.*/)?" then the literal then "$", returns: the leading "**" stands
\* only for zero or more whole path segments.
C15_SuffixMatchIsAnchoredExpression ==
    (/\ res.op = "Match"
     /\ patterns[1].MatchType = SuffixMatch
     /\ IsGlobstarThenLiteral(input[1]))
        => (res.matched <=> MatchString(ScanExpression(input[1]), res.file))

====
